---- MODULE Spec2Model ----
(***************************************************************************)
(* State-machine model of the KRA tabs field widget                        *)
(* (hr_employee_evaluation, widget "kra_tabs_widget") and of its           *)
(* AddKraDialog.  The host record (the "Record Accessor") is an external   *)
(* collaborator: a call to record.update / list.delete is put in flight    *)
(* when the handler reaches its await, and is later resolved (the change   *)
(* is applied to the record and the handler's continuation runs) or        *)
(* rejected (nothing is applied and the handler's catch/finally runs).     *)
(***************************************************************************)
EXTENDS Integers, Sequences, FiniteSets, TLC

VARIABLES
    kras,            \* props.record.data[props.name].records
    resModel,        \* props.record.resModel
    options,         \* props.options.mode (NoMode when absent)
    fieldOptions,    \* props.record.activeFields[props.name].options.mode
    readonly,        \* props.readonly
    activeTabIndex,  \* state.activeTabIndex
    isDeleting,      \* state.isDeleting
    showRestorePanel,\* state.showRestorePanel
    dialogs,         \* AddKraDialog instances opened through the dialog service
    pending,         \* Accessor calls in flight, each with its awaiting handler
    unhandled,       \* a handler's promise was rejected and nothing caught it
    db,              \* kra_tabs.js: rows of appraisal.kra / appraisal.kpi on the server
    recordId,        \* kra_tabs.js: props.record.data.id (0 for an unsaved record)
    stateKras,       \* kra_tabs.js: state.kras
    activeKraId,     \* kra_tabs.js: state.activeKraId (NoKra for null)
    activeKraKpis,   \* kra_tabs.js: state.activeKraKpis
    isDestroyed,     \* kra_tabs.js: this.isDestroyed
    rpcs             \* kra_tabs.js: orm calls in flight, each with its awaiting method

ormVars == <<db, recordId, stateKras, activeKraId, activeKraKpis, isDestroyed, rpcs>>

vars == <<kras, resModel, options, fieldOptions, readonly, activeTabIndex,
          isDeleting, showRestorePanel, dialogs, pending, unhandled, ormVars>>

-----------------------------------------------------------------------------
(* Bounds of the model *)

MaxKras == 2
MaxKpis == 2
MaxTemplateKpis == 1
MaxPending == 1
MaxCreating == 2
MaxDialogs == 1
MaxSequence == 20

-----------------------------------------------------------------------------
(* Values *)

NoMode == "none"
TemplateModel == "appraisal.template"
AppraisalModel == "hr.appraisal"

NoTemplateKpi == <<>>
TemplateKpi(id) == <<id, "template kpi">>

Kpi(id, isNew, name, weightage, score, selected, clone, tmpl) ==
    [id |-> id, isNew |-> isNew, name |-> name, description |-> <<"d">>,
     criteria |-> <<"c">>, weightage |-> weightage, score |-> score,
     is_selected |-> selected, is_clone |-> clone, template_kpi_id |-> tmpl,
     target |-> <<>>, planning_remarks |-> <<>>]

Kra(id, name, sequence, kpis) ==
    [id |-> id, name |-> name, sequence |-> sequence, kpis |-> kpis]

\* Records the host form can hand to the widget: an appraisal template ...
RecordEmpty == <<>>

RecordTemplate ==
    << Kra(1, <<"a">>, 10,
           << Kpi(2, FALSE, <<"k">>, 0, 3, TRUE, FALSE, NoTemplateKpi) >>) >>

\* ... or an employee's appraisal planned from a template.
RecordPlanned ==
    << Kra(1, <<"a">>, 10,
           << Kpi(2, FALSE, <<"k">>, 5, 3, TRUE, FALSE, TemplateKpi(7)),
              Kpi(3, TRUE, <<"k">>, 0, 3, TRUE, FALSE, NoTemplateKpi) >>) >>

RecordSet(model) ==
    IF model = TemplateModel THEN {RecordEmpty, RecordTemplate}
    ELSE {RecordEmpty, RecordPlanned}

\* (resModel, options.mode, activeFields options.mode) of the views using the widget.
ViewSet ==
    { <<TemplateModel, "supervisor", NoMode>>,
      <<AppraisalModel, "employee", "supervisor">>,
      <<AppraisalModel, NoMode, "supervisor">> }

-----------------------------------------------------------------------------
(* Sequence helpers *)

Range(s) == {s[i] : i \in 1..Len(s)}

RemoveAt(s, i) == SubSeq(s, 1, i - 1) \o SubSeq(s, i + 1, Len(s))

RECURSIVE Filter(_, _)
Filter(s, keep) ==
    IF s = <<>> THEN <<>>
    ELSE IF Head(s).id \in keep THEN <<Head(s)>> \o Filter(Tail(s), keep)
         ELSE Filter(Tail(s), keep)

RECURSIVE MaxOf(_)
MaxOf(S) ==
    LET x == CHOOSE y \in S : TRUE
    IN IF Cardinality(S) = 1 THEN x
       ELSE LET m == MaxOf(S \ {x}) IN IF x > m THEN x ELSE m

-----------------------------------------------------------------------------
(* Getters of KraTabs *)

\* Variant that forgets the activeFields fallback.
Mode_NoFieldFallback(model, opts, fopts) ==
    IF model = TemplateModel THEN "template"
    ELSE IF opts # NoMode THEN opts
    ELSE "employee"

\* Variant in which the options win over the record's model.
Mode_OptionsFirst(model, opts, fopts) ==
    IF opts # NoMode THEN opts
    ELSE IF model = TemplateModel THEN "template"
    ELSE IF fopts # NoMode THEN fopts
    ELSE "employee"

Mode(model, opts, fopts) ==
    IF model = TemplateModel THEN "template"
    ELSE IF opts # NoMode THEN opts
    ELSE IF fopts # NoMode THEN fopts
    ELSE "employee"

mode == Mode(resModel, options, fieldOptions)
isTemplateMode == mode = "template"
isEmployeeMode == mode = "employee"
isSupervisorMode == mode = "supervisor"

kraRecords == kras
hasKras == Len(kraRecords) > 0

\* kraRecords[activeTabIndex] || null
hasActiveKRA == activeTabIndex \in 0..(Len(kraRecords) - 1)
activeKRA == kraRecords[activeTabIndex + 1]
activeKPIs == IF hasActiveKRA THEN activeKRA.kpis ELSE <<>>


\* get activeDeselectedKPIs
activeDeselectedKPIs ==
    Filter(activeKPIs, {k.id : k \in {x \in Range(activeKPIs) : ~x.is_selected}})

\* x || 0 on a number
OrZero(x) == IF x = 0 THEN 0 ELSE x

\* kpis.reduce((sum, kpi) => sum + (kpi.data[field] || 0), sum)
RECURSIVE ReduceSum(_, _, _)
ReduceSum(kpis, field, sum) ==
    IF kpis = <<>> THEN sum
    ELSE ReduceSum(Tail(kpis), field, sum + OrZero(Head(kpis)[field]))

\* Variant that keeps the deselected rows.
SelectedKPIs_All(kpis) == kpis

\* kpis.filter(kpi => kpi.data.is_selected)
SelectedKPIs(kpis) == SelectSeq(kpis, LAMBDA k : k.is_selected)

\* get activeTotalScore
activeTotalScore ==
    IF isTemplateMode THEN ReduceSum(activeKPIs, "score", 0)
    ELSE ReduceSum(SelectedKPIs(activeKPIs), "weightage", 0)

-----------------------------------------------------------------------------
(* The Record Accessor: identities, commands and their application *)

AllKpis(ks) == UNION {Range(k.kpis) : k \in Range(ks)}

\* Row identities are only ever compared; a new row takes the least identity
\* that no row of the record and no call in flight on this record refers to.
UsedIds ==
    {k.id : k \in Range(kras)} \cup {k.id : k \in AllKpis(kras)}
    \cup {pending[i].kra : i \in {j \in 1..Len(pending) : ~pending[j].stale}}
    \cup {pending[i].kpi : i \in {j \in 1..Len(pending) : ~pending[j].stale}}

FreshId == CHOOSE n \in 1..(Cardinality(UsedIds) + 1) : n \notin UsedIds

\* A call in flight: the awaiting handler (op), the Accessor command and its
\* arguments as evaluated when the call was made.
Request(op, cmd, kra, kpi, vals) ==
    [op |-> op, cmd |-> cmd, kra |-> kra, kpi |-> kpi, vals |-> vals, stale |-> FALSE]

\* Field defaults of a row created by a [0, 0, values] command.
NewKpi(id, vals) ==
    LET base == [id |-> id, isNew |-> TRUE, name |-> <<>>, description |-> <<>>,
                 criteria |-> <<>>, weightage |-> 0, score |-> 0,
                 is_selected |-> TRUE, is_clone |-> FALSE,
                 template_kpi_id |-> NoTemplateKpi,
                 target |-> <<>>, planning_remarks |-> <<>>]
    IN [f \in DOMAIN base |->
          IF f \in DOMAIN vals
          THEN IF f = "template_kpi_id"
               THEN (IF vals[f] = 0 THEN NoTemplateKpi ELSE TemplateKpi(vals[f]))
               ELSE vals[f]
          ELSE base[f]]

Patch(row, vals) ==
    [f \in DOMAIN row |-> IF f \in DOMAIN vals THEN vals[f] ELSE row[f]]

MapKpis(ks, F(_, _)) ==
    [i \in 1..Len(ks) |-> [ks[i] EXCEPT !.kpis = F(ks[i], ks[i].kpis)]]

\* The effect of a resolved command on the record it was issued on.
AccessorApply(ks, r) ==
    CASE r.cmd = "create_kra" ->
           Append(ks, Kra(FreshId, r.vals.name, r.vals.sequence, <<>>))
      [] r.cmd = "delete_kra" ->
           Filter(ks, {k.id : k \in Range(ks)} \ {r.kra})
      [] r.cmd = "create_kpi" ->
           LET add(k, kpis) == IF k.id = r.kra
                               THEN Append(kpis, NewKpi(FreshId, r.vals))
                               ELSE kpis
           IN MapKpis(ks, add)
      [] r.cmd = "delete_kpi" ->
           LET del(k, kpis) == IF k.id = r.kra
                               THEN Filter(kpis, {x.id : x \in Range(kpis)} \ {r.kpi})
                               ELSE kpis
           IN MapKpis(ks, del)
      [] r.cmd = "update_kpi" ->
           LET upd(k, kpis) == [i \in 1..Len(kpis) |->
                                  IF kpis[i].id = r.kpi THEN Patch(kpis[i], r.vals)
                                  ELSE kpis[i]]
           IN MapKpis(ks, upd)

IsDeleteOp(op) == op \in {"onDeleteKRA", "onDeleteKPI"}

InFlight(cmd) == {i \in 1..Len(pending) : pending[i].cmd = cmd /\ ~pending[i].stale}

\* Room for one more call in flight / one more row (model bounds).  Delete
\* calls need no bound: isDeleting limits them.  Up to MaxCreating createKRA
\* calls may be in flight together when nothing else is.
CanCall == Cardinality({i \in 1..Len(pending) : ~IsDeleteOp(pending[i].op)}) < MaxPending
CanAddKra == Len(kras) + Cardinality(InFlight("create_kra")) < MaxKras
CanAddKpi ==
    Cardinality(AllKpis(kras)) + Cardinality(InFlight("create_kpi"))
      < (IF resModel = TemplateModel THEN MaxTemplateKpis ELSE MaxKpis)

-----------------------------------------------------------------------------
(* Text inputs *)

Space == " "
Digits == <<"0", "1", "2", "3", "4", "5", "6", "7", "8", "9">>
IsDigit(c) == \E i \in 1..Len(Digits) : Digits[i] = c
DigitValue(c) == (CHOOSE i \in 1..Len(Digits) : Digits[i] = c) - 1

RECURSIVE TrimStart(_)
TrimStart(s) ==
    IF s # <<>> /\ Head(s) = Space THEN TrimStart(Tail(s)) ELSE s

RECURSIVE TrimEnd(_)
TrimEnd(s) ==
    IF s # <<>> /\ s[Len(s)] = Space THEN TrimEnd(SubSeq(s, 1, Len(s) - 1)) ELSE s

\* String.prototype.trim
Trim(s) == TrimEnd(TrimStart(s))

RECURSIVE DigitPrefix(_, _)
DigitPrefix(s, acc) ==
    IF s # <<>> /\ IsDigit(Head(s))
    THEN DigitPrefix(Tail(s), 10 * acc + DigitValue(Head(s)))
    ELSE acc

\* parseFloat on unsigned integer literals: <<>> stands for NaN.
ParseFloat(s) ==
    LET t == TrimStart(s)
    IN IF t # <<>> /\ IsDigit(Head(t)) THEN <<DigitPrefix(t, 0)>> ELSE <<>>

\* parseFloat(value) || 0.0
ParseFloatOrZero(s) ==
    IF ParseFloat(s) = <<>> THEN 0 ELSE ParseFloat(s)[1]

NameInputs == { <<" ">>, <<" ", "c", " ">> }
FieldEdits == { <<"weightage", <<"x">> >>, <<"weightage", <<"0", "x">> >> }


-----------------------------------------------------------------------------
(* Initial state: KraTabs.setup on a record of some view *)

NoKra == 0

\* The backend-driven widget of kra_tabs.js is not mounted.
OrmAbsent ==
    /\ db = [kras |-> {}, kpis |-> {}]
    /\ recordId = 0
    /\ stateKras = <<>>
    /\ activeKraId = NoKra
    /\ activeKraKpis = <<>>
    /\ isDestroyed = FALSE
    /\ rpcs = <<>>

Init ==
    /\ \E v \in ViewSet : resModel = v[1] /\ options = v[2] /\ fieldOptions = v[3]
    /\ kras \in RecordSet(resModel)
    /\ readonly \in BOOLEAN
    /\ activeTabIndex = 0
    /\ isDeleting = FALSE
    /\ showRestorePanel = FALSE
    /\ dialogs = <<>>
    /\ pending = <<>>
    /\ unhandled = FALSE
    /\ OrmAbsent

props == <<kras, resModel, options, fieldOptions, readonly>>
state == <<activeTabIndex, isDeleting, showRestorePanel>>

\* createKRA calls dispatched in rapid succession overlap each other.
Overlaps(op) ==
    /\ op = "createKRA"
    /\ \A i \in 1..Len(pending) : pending[i].op = "createKRA" /\ ~pending[i].stale
    /\ Len(pending) < MaxCreating

Call(r) ==
    /\ IsDeleteOp(r.op) \/ CanCall \/ Overlaps(r.op)
    /\ pending' = Append(pending, r)

-----------------------------------------------------------------------------
(* onWillUpdateProps *)

WillUpdatePropsIndex(index, nextKraCount) ==
    IF index >= nextKraCount /\ nextKraCount > 0 THEN nextKraCount - 1
    ELSE IF nextKraCount = 0 THEN 0
    ELSE index

\* The host re-renders the form with the same record.
OnWillUpdateProps_Rerender ==
    /\ activeTabIndex' = WillUpdatePropsIndex(activeTabIndex, Len(kras))
    /\ UNCHANGED <<ormVars, kras, resModel, options, fieldOptions, readonly, isDeleting,
                   showRestorePanel, dialogs, pending, unhandled>>

\* The host replaces the owning record; calls in flight stay with the old one.
OnWillUpdateProps_Replace(nextRecord) ==
    /\ nextRecord # kras
    /\ activeTabIndex' = WillUpdatePropsIndex(activeTabIndex, Len(nextRecord))
    /\ kras' = nextRecord
    /\ pending' = [i \in 1..Len(pending) |-> [pending[i] EXCEPT !.stale = TRUE]]
    /\ UNCHANGED <<ormVars, resModel, options, fieldOptions, readonly, isDeleting,
                   showRestorePanel, dialogs, unhandled>>

\* The host saves the record: virtual rows become persisted, then it re-renders.
OnWillUpdateProps_Saved ==
    /\ \E k \in AllKpis(kras) : k.isNew
    /\ LET saved(k, kpis) == [i \in 1..Len(kpis) |-> [kpis[i] EXCEPT !.isNew = FALSE]]
       IN kras' = MapKpis(kras, saved)
    /\ activeTabIndex' = WillUpdatePropsIndex(activeTabIndex, Len(kras))
    /\ UNCHANGED <<ormVars, resModel, options, fieldOptions, readonly, isDeleting,
                   showRestorePanel, dialogs, pending, unhandled>>

-----------------------------------------------------------------------------
(* AddKraDialog *)

ExistingNames == {k.name : k \in {x \in Range(kraRecords) : x.name # <<>>}}

\* Variant without the read-only check.
OnAddKRA_returns_NoReadonly == ~isTemplateMode

OnAddKRA_returns == readonly \/ ~isTemplateMode

OnAddKRA ==
    IF OnAddKRA_returns THEN UNCHANGED vars
    ELSE /\ Len(dialogs) < MaxDialogs
         /\ dialogs' = Append(dialogs, [existingNames |-> ExistingNames,
                                         kraName |-> <<>>, error |-> ""])
         /\ UNCHANGED <<ormVars, props, state, pending, unhandled>>

OnNameChange(d, value) ==
    /\ dialogs' = [dialogs EXCEPT ![d] = [@ EXCEPT !.kraName = value, !.error = ""]]
    /\ UNCHANGED <<ormVars, props, state, pending, unhandled>>

\* createKRA up to its await
MaxSequenceOf(ks) ==
    IF Len(ks) > 0 THEN MaxOf({k.sequence : k \in Range(ks)}) ELSE 0

CreateKRA_call(kraName) ==
    /\ CanAddKra
    /\ MaxSequenceOf(kraRecords) + 10 <= MaxSequence
    /\ Call(Request("createKRA", "create_kra", 0, 0,
                    [name |-> kraName, sequence |-> MaxSequenceOf(kraRecords) + 10]))

\* Variant without the duplicate-name check.
DialogError_RequiredOnly(name, existingNames) ==
    IF name = <<>> THEN "KRA name is required" ELSE ""

DialogError(name, existingNames) ==
    IF name = <<>> THEN "KRA name is required"
    ELSE IF name \in existingNames THEN "A KRA with this name already exists"
    ELSE ""

DialogOnConfirm(d) ==
    LET name == Trim(dialogs[d].kraName)
        error == DialogError(name, dialogs[d].existingNames)
    IN IF error # ""
       THEN /\ dialogs' = [dialogs EXCEPT ![d] = [@ EXCEPT !.error = error]]
            /\ UNCHANGED <<ormVars, props, state, pending, unhandled>>
       ELSE /\ CreateKRA_call(name)
            /\ dialogs' = RemoveAt(dialogs, d)
            /\ UNCHANGED <<ormVars, props, state, unhandled>>

OnKeydown(d, key) ==
    IF key = "Enter" THEN DialogOnConfirm(d) ELSE UNCHANGED vars

\* The user dismisses the dialog.
DialogClose(d) ==
    /\ dialogs' = RemoveAt(dialogs, d)
    /\ UNCHANGED <<ormVars, props, state, pending, unhandled>>

-----------------------------------------------------------------------------
(* KraTabs handlers, up to their await *)

OnDuplicateKPI_returns == readonly \/ ~hasActiveKRA

\* Variant that does not mark the copy as a clone.
DuplicateValues_NotClone(kpiRecord) ==
    [name |-> kpiRecord.name,
     description |-> kpiRecord.description,
     criteria |-> kpiRecord.criteria,
     weightage |-> 0,
     template_kpi_id |-> IF kpiRecord.template_kpi_id # NoTemplateKpi
                         THEN kpiRecord.template_kpi_id[1] ELSE 0,
     is_selected |-> TRUE,
     is_clone |-> FALSE,
     target |-> <<>>,
     planning_remarks |-> <<>>]

\* Variant that copies the source's weightage.
DuplicateValues_KeepsWeightage(kpiRecord) ==
    [name |-> kpiRecord.name,
     description |-> kpiRecord.description,
     criteria |-> kpiRecord.criteria,
     weightage |-> kpiRecord.weightage,
     template_kpi_id |-> IF kpiRecord.template_kpi_id # NoTemplateKpi
                         THEN kpiRecord.template_kpi_id[1] ELSE 0,
     is_selected |-> TRUE,
     is_clone |-> TRUE,
     target |-> <<>>,
     planning_remarks |-> <<>>]

DuplicateValues(kpiRecord) ==
    [name |-> kpiRecord.name,
     description |-> kpiRecord.description,
     criteria |-> kpiRecord.criteria,
     weightage |-> 0,
     template_kpi_id |-> IF kpiRecord.template_kpi_id # NoTemplateKpi
                         THEN kpiRecord.template_kpi_id[1] ELSE 0,
     is_selected |-> TRUE,
     is_clone |-> TRUE,
     target |-> <<>>,
     planning_remarks |-> <<>>]

OnDuplicateKPI(kpiRecord) ==
    IF OnDuplicateKPI_returns THEN UNCHANGED vars
    ELSE /\ CanAddKpi
         /\ Call(Request("onDuplicateKPI", "create_kpi", activeKRA.id, 0,
                         DuplicateValues(kpiRecord)))
         /\ UNCHANGED <<ormVars, props, state, dialogs, unhandled>>

\* Variants without the busy check / without the template-mode check.
OnDeleteKRA_returns_NoBusy == readonly \/ ~hasActiveKRA \/ ~isTemplateMode
OnDeleteKRA_returns_NoMode == readonly \/ ~hasActiveKRA \/ isDeleting

OnDeleteKRA_returns == readonly \/ ~hasActiveKRA \/ isDeleting \/ ~isTemplateMode

OnDeleteKRA ==
    IF OnDeleteKRA_returns THEN UNCHANGED vars
    ELSE /\ isDeleting' = TRUE
         /\ Call(Request("onDeleteKRA", "delete_kra", activeKRA.id, 0, <<>>))
         /\ UNCHANGED <<ormVars, props, activeTabIndex, showRestorePanel, dialogs, unhandled>>

SetActiveTab(index) ==
    /\ activeTabIndex' = index
    /\ UNCHANGED <<ormVars, props, isDeleting, showRestorePanel, dialogs, pending, unhandled>>

OnAddKPI_returns == readonly \/ ~hasActiveKRA \/ ~isTemplateMode

OnAddKPI ==
    IF OnAddKPI_returns THEN UNCHANGED vars
    ELSE /\ CanAddKpi
         /\ Call(Request("onAddKPI", "create_kpi", activeKRA.id, 0,
                         [name |-> <<>>, description |-> <<>>,
                          criteria |-> <<>>, score |-> 0]))
         /\ UNCHANGED <<ormVars, props, state, dialogs, unhandled>>

OnDeleteKPI_returns == readonly \/ ~hasActiveKRA \/ isDeleting \/ isSupervisorMode

\* Variant that only destroys clones.
EmployeeDestroys_CloneOnly(kpiRecord) == kpiRecord.is_clone

\* Variant that destroys every row an employee deletes.
EmployeeDestroys_Always(kpiRecord) == TRUE

\* Employee mode: destroy an unsaved row or a clone, deselect any other row.
EmployeeDestroys(kpiRecord) == kpiRecord.isNew \/ kpiRecord.is_clone

\* The Accessor command onDeleteKPI issues, "none" when no branch applies.
DeleteKPICommand(kpiRecord) ==
    IF isTemplateMode THEN "delete_kpi"
    ELSE IF isEmployeeMode
         THEN (IF EmployeeDestroys(kpiRecord) THEN "delete_kpi" ELSE "update_kpi")
         ELSE "none"

OnDeleteKPI(kpiRecord) ==
    IF OnDeleteKPI_returns THEN UNCHANGED vars
    ELSE IF DeleteKPICommand(kpiRecord) = "none"
         THEN UNCHANGED vars   \* isDeleting set and cleared without an await
         ELSE /\ isDeleting' = TRUE
              /\ Call(Request("onDeleteKPI", DeleteKPICommand(kpiRecord),
                              activeKRA.id, kpiRecord.id,
                              IF DeleteKPICommand(kpiRecord) = "update_kpi"
                              THEN [is_selected |-> FALSE] ELSE <<>>))
              /\ UNCHANGED <<ormVars, props, activeTabIndex, showRestorePanel, dialogs, unhandled>>

\* Variant that also resets the clone mark.
RestoreValues_ResetsClone == [is_selected |-> TRUE, is_clone |-> FALSE]

RestoreValues == [is_selected |-> TRUE]

OnRestoreKPI(kpiRecord) ==
    IF readonly THEN UNCHANGED vars
    ELSE /\ Call(Request("onRestoreKPI", "update_kpi", 0, kpiRecord.id,
                         RestoreValues))
         /\ UNCHANGED <<ormVars, props, state, dialogs, unhandled>>

OnToggleRestorePanel ==
    /\ showRestorePanel' = ~showRestorePanel
    /\ UNCHANGED <<ormVars, props, activeTabIndex, isDeleting, dialogs, pending, unhandled>>

FieldValue(fieldName, value) ==
    IF fieldName = "score" \/ fieldName = "weightage"
    THEN ParseFloatOrZero(value) ELSE value

OnKPIFieldChange(kpiRecord, fieldName, value) ==
    IF readonly THEN UNCHANGED vars
    ELSE /\ Call(Request("onKPIFieldChange", "update_kpi", 0, kpiRecord.id,
                         [f \in {fieldName} |-> FieldValue(fieldName, value)]))
         /\ UNCHANGED <<ormVars, props, state, dialogs, unhandled>>

OnKPICheckboxChange(kpiRecord, checked) ==
    IF readonly THEN UNCHANGED vars
    ELSE /\ Call(Request("onKPICheckboxChange", "update_kpi", 0, kpiRecord.id,
                         [is_selected |-> checked]))
         /\ UNCHANGED <<ormVars, props, state, dialogs, unhandled>>

-----------------------------------------------------------------------------
(* The Accessor settles a call and the awaiting handler continues *)

DeleteKRAIndex(index, newLength) ==
    IF index >= newLength /\ newLength > 0 THEN newLength - 1
    ELSE IF newLength = 0 THEN 0
    ELSE index

\* Variant in which createKRA leaves the tab selection alone.
ResolvedIndex_KeepsTab(op, index, length) ==
    IF op = "onDeleteKRA" THEN DeleteKRAIndex(index, length) ELSE index

\* State written by the handler after a resolved await.
ResolvedIndex(op, index, length) ==
    IF op = "createKRA" THEN length - 1
    ELSE IF op = "onDeleteKRA" THEN DeleteKRAIndex(index, length)
    ELSE index

\* Variant without try/catch.
Catches_Nothing(op) == FALSE

\* A rejected await is caught (and logged) by the delete handlers only.
Catches(op) == IsDeleteOp(op)

\* Variant without the finally block.
Finally_isDeleting_Absent(op, flag) == flag

\* The finally block of the delete handlers clears the busy flag.
Finally_isDeleting(op, flag) == IF IsDeleteOp(op) THEN FALSE ELSE flag

Resolve(i) ==
    LET r == pending[i]
    IN /\ kras' = IF r.stale THEN kras ELSE AccessorApply(kras, r)
       /\ pending' = RemoveAt(pending, i)
       /\ activeTabIndex' = ResolvedIndex(r.op, activeTabIndex, Len(kras'))
       /\ isDeleting' = Finally_isDeleting(r.op, isDeleting)
       /\ UNCHANGED <<ormVars, resModel, options, fieldOptions, readonly,
                      showRestorePanel, dialogs, unhandled>>

Reject(i) ==
    LET r == pending[i]
    IN /\ pending' = RemoveAt(pending, i)
       /\ isDeleting' = Finally_isDeleting(r.op, isDeleting)
       /\ unhandled' = IF Catches(r.op) THEN unhandled ELSE TRUE
       /\ UNCHANGED <<ormVars, props, activeTabIndex, showRestorePanel, dialogs>>

-----------------------------------------------------------------------------

Next ==
    \/ OnWillUpdateProps_Rerender
    \/ \E rec \in RecordSet(resModel) : OnWillUpdateProps_Replace(rec)
    \/ OnWillUpdateProps_Saved
    \/ OnAddKRA
    \/ \E d \in 1..Len(dialogs), v \in NameInputs : OnNameChange(d, v)
    \/ \E d \in 1..Len(dialogs) : DialogOnConfirm(d)
    \/ \E d \in 1..Len(dialogs), key \in {"Enter", "a"} : OnKeydown(d, key)
    \/ \E d \in 1..Len(dialogs) : DialogClose(d)
    \/ \E k \in Range(activeKPIs) : OnDuplicateKPI(k)
    \/ OnDeleteKRA
    \/ \E index \in 0..(Len(kras) - 1) : SetActiveTab(index)
    \/ OnAddKPI
    \/ \E k \in Range(activeKPIs) : OnDeleteKPI(k)
    \/ \E k \in Range(activeKPIs) : OnRestoreKPI(k)
    \/ OnToggleRestorePanel
    \/ \E k \in Range(activeKPIs), e \in FieldEdits : OnKPIFieldChange(k, e[1], e[2])
    \/ \E k \in Range(activeKPIs), c \in BOOLEAN : OnKPICheckboxChange(k, c)
    \/ \E i \in 1..Len(pending) : Resolve(i)
    \/ \E i \in 1..Len(pending) : Reject(i)

Spec == Init /\ [][Next]_vars

TypeOK ==
    /\ Len(kras) <= MaxKras
    /\ Cardinality(AllKpis(kras)) <= MaxKpis
    /\ Len(pending) <= MaxPending + MaxCreating
    /\ Len(dialogs) <= MaxDialogs

-----------------------------------------------------------------------------
(* Properties *)

StructuralCmds == {"create_kra", "delete_kra", "create_kpi", "delete_kpi"}

\* No handler that adds or removes a row is waiting on the Accessor.
NoStructuralInFlight ==
    \A i \in 1..Len(pending) : pending[i].cmd \notin StructuralCmds

\* C1: whenever no structural mutation is in flight, activeTabIndex is a valid
\* index into the KRA collection (0 <= activeTabIndex < N) when N > 0, and is 0
\* when N = 0.
C1_ActiveTabIndexValid ==
    NoStructuralInFlight =>
        IF Len(kras) > 0 THEN activeTabIndex \in 0..(Len(kras) - 1)
        ELSE activeTabIndex = 0


KpiIds(ks) == {k.id : k \in AllKpis(ks)}
KpiRow(ks, id) == CHOOSE k \in AllKpis(ks) : k.id = id

\* The KRA rows without their KPI collections.
KraRows(ks) ==
    [i \in 1..Len(ks) |-> [id |-> ks[i].id, name |-> ks[i].name,
                            sequence |-> ks[i].sequence]]

\* The positions of the KPI rows.
KpiLayout(ks) ==
    [i \in 1..Len(ks) |-> [j \in 1..Len(ks[i].kpis) |-> ks[i].kpis[j].id]]

DeletesInFlight == {i \in 1..Len(pending) : IsDeleteOp(pending[i].op)}

LastCall == pending'[Len(pending')]
CallMade == Len(pending') = Len(pending) + 1

DeleteKPIStep == \E k \in Range(activeKPIs) : OnDeleteKPI(k)

\* C2: deleteKPI(row) in employee mode on a non-read-only widget with no
\* delete in flight asks the Accessor to delete a row that is unsaved or a
\* clone, and to write is_selected = false on any other row; once resolved the
\* former row is gone from the collection and the latter is still there,
\* deselected.
C2_EmployeeDeleteKPI ==
    [][ /\ \A k \in Range(activeKPIs) :
             (isEmployeeMode /\ ~readonly /\ ~isDeleting /\ OnDeleteKPI(k)) =>
                 /\ CallMade
                 /\ LastCall.kpi = k.id
                 /\ LastCall.cmd = IF k.isNew \/ k.is_clone
                                   THEN "delete_kpi" ELSE "update_kpi"
        /\ \A i \in 1..Len(pending) :
             (/\ isEmployeeMode
              /\ pending[i].op = "onDeleteKPI"
              /\ ~pending[i].stale
              /\ Resolve(i)) =>
                 IF pending[i].cmd = "delete_kpi"
                 THEN KpiIds(kras') = KpiIds(kras) \ {pending[i].kpi}
                 ELSE /\ KpiLayout(kras') = KpiLayout(kras)
                      /\ pending[i].kpi \in KpiIds(kras)
                      /\ ~KpiRow(kras', pending[i].kpi).is_selected
      ]_vars

\* An employee has destroyed the unsaved row and is deselecting the inherited one.
C2_Witness ==
    /\ isEmployeeMode /\ ~readonly
    /\ KpiIds(kras) = {2}
    /\ \E i \in 1..Len(pending) :
          /\ pending[i].op = "onDeleteKPI" /\ pending[i].cmd = "update_kpi"
          /\ pending[i].kpi = 2 /\ ~pending[i].stale

\* C3: while isDeleting is true a further deleteKRA or deleteKPI returns
\* without an Accessor call and without touching isDeleting; at most one
\* delete call is in flight at any time.
C3_DeleteNotReentrant ==
    /\ [](Cardinality(DeletesInFlight) <= 1)
    /\ [][ (isDeleting /\ (OnDeleteKRA \/ DeleteKPIStep)) =>
              (pending' = pending /\ isDeleting' = isDeleting) ]_vars

\* A delete is in flight on a widget whose rows could be deleted again.
C3_Witness ==
    /\ isDeleting /\ ~readonly /\ isTemplateMode
    /\ hasActiveKRA /\ activeKPIs # <<>>
    /\ Cardinality(DeletesInFlight) = 1

\* C4: isDeleting is true only while a delete call is in flight, and the
\* handler leaves it false when that call resolves or rejects.
C4_IsDeletingCleared ==
    /\ [](isDeleting => DeletesInFlight # {})
    /\ [][ \A i \in 1..Len(pending) :
              (IsDeleteOp(pending[i].op) /\ (Resolve(i) \/ Reject(i))) =>
                  ~isDeleting' ]_vars

\* An employee's deletes have settled (the unsaved row destroyed, the inherited
\* one deselected): the flag is clear and nothing is in flight.
C4_Witness ==
    /\ ~isDeleting /\ ~readonly /\ pending = <<>>
    /\ isEmployeeMode /\ ~unhandled
    /\ KpiIds(kras) = {2} /\ ~KpiRow(kras, 2).is_selected

\* C5: a deleteKRA or deleteKPI whose Accessor call is rejected raises no
\* error to its caller, and neither its invocation nor the rejection changes
\* the KRA/KPI collections or activeTabIndex.
C5_RejectedDeleteIsSwallowed ==
    [][ /\ (OnDeleteKRA \/ DeleteKPIStep) =>
              (kras' = kras /\ activeTabIndex' = activeTabIndex)
        /\ \A i \in 1..Len(pending) :
              (IsDeleteOp(pending[i].op) /\ Reject(i)) =>
                  /\ kras' = kras
                  /\ activeTabIndex' = activeTabIndex
                  /\ unhandled' = unhandled
      ]_vars

\* A deleteKRA is in flight on the second of two KRAs, with no error raised so far.
C5_Witness ==
    /\ ~unhandled /\ Len(kras) = 2 /\ activeTabIndex = 1
    /\ \E i \in 1..Len(pending) :
          pending[i].op = "onDeleteKRA" /\ pending[i].kra = kras[2].id

ReadonlyGatedStep ==
    \/ OnAddKRA
    \/ \E k \in Range(activeKPIs) : OnDuplicateKPI(k)
    \/ OnDeleteKRA
    \/ OnAddKPI
    \/ DeleteKPIStep
    \/ \E k \in Range(activeKPIs) : OnRestoreKPI(k)
    \/ \E k \in Range(activeKPIs), e \in FieldEdits : OnKPIFieldChange(k, e[1], e[2])
    \/ \E k \in Range(activeKPIs), c \in BOOLEAN : OnKPICheckboxChange(k, c)

\* C6: on a read-only widget addKRA, duplicateKPI, deleteKRA, addKPI,
\* deleteKPI, restoreKPI, onFieldChange and onCheckboxChange make no Accessor
\* call, open no dialog and leave isDeleting and the collections as they are;
\* so nothing is ever in flight, no dialog is open and isDeleting is false.
C6_ReadonlyNoOps ==
    /\ [](readonly => (pending = <<>> /\ dialogs = <<>> /\ ~isDeleting))
    /\ [][ (readonly /\ ReadonlyGatedStep) =>
              UNCHANGED <<pending, dialogs, isDeleting, kras>> ]_vars

\* A read-only template widget showing a KRA with a KPI: every handler has a target.
C6_Witness ==
    /\ readonly /\ isTemplateMode /\ hasActiveKRA /\ activeKPIs # <<>>
    /\ showRestorePanel

ReplaceStep == \E rec \in RecordSet(resModel) : OnWillUpdateProps_Replace(rec)

\* C7: outside template mode addKRA, deleteKRA and addKPI make no Accessor
\* call and open no dialog, and no step of the widget adds or removes a KRA:
\* the KRA rows change only when the host replaces the record.
C7_NonTemplateKeepsKRAs ==
    [][ /\ (~isTemplateMode /\ (OnAddKRA \/ OnDeleteKRA \/ OnAddKPI)) =>
              UNCHANGED <<pending, dialogs, kras, isDeleting>>
        /\ (~isTemplateMode /\ ~ReplaceStep) => KraRows(kras') = KraRows(kras)
      ]_vars

\* An editable employee or supervisor widget with an active KRA and a call in flight.
C7_Witness ==
    ~isTemplateMode /\ ~readonly /\ hasActiveKRA /\ pending # <<>>


DuplicateKPIStep == \E k \in Range(activeKPIs) : OnDuplicateKPI(k)

SupervisorView ==
    /\ resModel # TemplateModel
    /\ options = "supervisor" \/ (options = NoMode /\ fieldOptions = "supervisor")

\* C9: in supervisor mode deleteKPI removes no KPI, changes no is_selected
\* flag, makes no Accessor call and does not set isDeleting; no delete is ever
\* in flight there.
C9_SupervisorDeleteKPINoOp ==
    /\ [](SupervisorView => (~isDeleting /\ DeletesInFlight = {}))
    /\ [][ (SupervisorView /\ DeleteKPIStep) =>
              UNCHANGED <<kras, isDeleting, pending>> ]_vars

\* An editable supervisor widget showing KPIs, one of them deselected.
C9_Witness ==
    /\ SupervisorView /\ ~readonly /\ hasActiveKRA
    /\ \E k \in Range(activeKPIs) : ~k.is_selected
    /\ \E k \in Range(activeKPIs) : k.is_selected

\* C10: restoreKPI(row) on a non-read-only widget only issues one Accessor
\* update; when it resolves, is_selected of that row is true and every other
\* field of the row, every other row, the KRA rows, activeTabIndex, isDeleting
\* and showRestorePanel are as before.
C10_RestoreKPIFrame ==
    [][ /\ \A k \in Range(activeKPIs) :
             (~readonly /\ OnRestoreKPI(k)) =>
                 /\ CallMade
                 /\ LastCall.kpi = k.id
                 /\ UNCHANGED <<kras, activeTabIndex, isDeleting, showRestorePanel>>
        /\ \A i \in 1..Len(pending) :
             (pending[i].op = "onRestoreKPI" /\ Resolve(i)) =>
                 /\ UNCHANGED <<activeTabIndex, isDeleting, showRestorePanel>>
                 /\ KraRows(kras') = KraRows(kras)
                 /\ KpiLayout(kras') = KpiLayout(kras)
                 /\ \A id \in KpiIds(kras) :
                       LET old == KpiRow(kras, id)
                           new == KpiRow(kras', id)
                       IN /\ \A f \in DOMAIN old \ {"is_selected"} : new[f] = old[f]
                          /\ new.is_selected =
                               IF id = pending[i].kpi /\ ~pending[i].stale
                               THEN TRUE ELSE old.is_selected
      ]_vars

\* A restore is in flight on a deselected clone while the restore panel is shown.
C10_Witness ==
    /\ ~readonly /\ showRestorePanel
    /\ \E i \in 1..Len(pending) :
          /\ pending[i].op = "onRestoreKPI" /\ ~pending[i].stale
          /\ pending[i].kpi \in KpiIds(kras)
          /\ ~KpiRow(kras, pending[i].kpi).is_selected
          /\ KpiRow(kras, pending[i].kpi).is_clone

-----------------------------------------------------------------------------
(* Soft delete and restore *)

\* The call restoreKPI(row) issues.
RestoreRequest(id) == Request("onRestoreKPI", "update_kpi", 0, id, RestoreValues)

\* A row inherited from the template: persisted and not a clone.
Inherited(k) == ~k.isNew /\ ~k.is_clone

RowIds(kpis) == {k.id : k \in Range(kpis)}

\* C11: in employee mode deleteKPI(row) on a persisted, non-clone, selected
\* row only asks the Accessor to deselect it; once that call has resolved the
\* same rows are present, the row is listed among the active KRA's deselected
\* KPIs, and the call restoreKPI(row) issues turns the collections back into
\* what they were before the delete, every field of the row included.
C11_DeleteRestoreRoundTrip ==
    [][ /\ \A k \in Range(activeKPIs) :
             (/\ isEmployeeMode /\ ~readonly /\ ~isDeleting
              /\ Inherited(k) /\ k.is_selected
              /\ OnDeleteKPI(k)) =>
                 /\ CallMade
                 /\ LastCall.cmd = "update_kpi"
                 /\ LastCall.kpi = k.id
                 /\ kras' = kras
        /\ \A i \in 1..Len(pending) :
             (/\ isEmployeeMode
              /\ pending[i].op = "onDeleteKPI" /\ pending[i].cmd = "update_kpi"
              /\ ~pending[i].stale
              /\ pending[i].kpi \in RowIds(activeKPIs)
              /\ KpiRow(kras, pending[i].kpi).is_selected
              /\ Resolve(i)) =>
                 /\ KpiLayout(kras') = KpiLayout(kras)
                 /\ pending[i].kpi \in RowIds(activeDeselectedKPIs')
                 /\ kras' # kras
                 /\ AccessorApply(kras', RestoreRequest(pending[i].kpi)) = kras
        /\ \A k \in Range(activeDeselectedKPIs) :
             (~readonly /\ OnRestoreKPI(k)) =>
                 /\ LastCall = RestoreRequest(k.id)
                 /\ kras' = kras
        /\ \A i \in 1..Len(pending) :
             (/\ pending[i] = RestoreRequest(pending[i].kpi)
              /\ Resolve(i)) =>
                 kras' = AccessorApply(kras, pending[i])
      ]_vars

\* An employee has soft-deleted the inherited row and its restore is in flight.
C11_Witness ==
    /\ isEmployeeMode /\ ~readonly /\ ~isDeleting
    /\ \E k \in Range(activeDeselectedKPIs) :
          /\ Inherited(k)
          /\ \E i \in 1..Len(pending) : pending[i] = RestoreRequest(k.id)

-----------------------------------------------------------------------------
(* Duplication *)

\* The row is a fresh copy of the descriptive fields v, marked as a clone.
IsCloneOf(row, v) ==
    /\ row.name = v.name
    /\ row.description = v.description
    /\ row.criteria = v.criteria
    /\ row.weightage = 0
    /\ row.is_selected
    /\ row.is_clone
    /\ row.target = <<>>
    /\ row.planning_remarks = <<>>

\* C12: duplicateKPI(source) on a non-read-only widget with an active KRA asks
\* the Accessor for one new row of the active KRA carrying the source's name,
\* description and criteria, weightage 0, is_selected and is_clone true, empty
\* target and planning_remarks, and the identity of the source's template KPI
\* if it has one; the resolved call appends exactly that row at the end of that
\* KRA (if the record still has it) and leaves every other row, the source
\* included, as it was.
C12_DuplicateKPIRow ==
    [][ /\ \A k \in Range(activeKPIs) :
             (~readonly /\ OnDuplicateKPI(k)) =>
                 /\ CallMade
                 /\ LastCall.cmd = "create_kpi"
                 /\ LastCall.kra = activeKRA.id
                 /\ IsCloneOf(LastCall.vals, k)
                 /\ IF k.template_kpi_id = NoTemplateKpi
                    THEN LastCall.vals.template_kpi_id = 0
                    ELSE LastCall.vals.template_kpi_id = k.template_kpi_id[1]
                 /\ kras' = kras
        /\ \A i \in 1..Len(pending) :
             (/\ pending[i].op = "onDuplicateKPI" /\ ~pending[i].stale
              /\ \E j \in 1..Len(kras) : kras[j].id = pending[i].kra
              /\ Resolve(i)) =>
                 \E n \in KpiIds(kras') \ KpiIds(kras) :
                    LET row == KpiRow(kras', n)
                    IN /\ KpiIds(kras') = KpiIds(kras) \cup {n}
                       /\ IsCloneOf(row, pending[i].vals)
                       /\ IF pending[i].vals.template_kpi_id = 0
                          THEN row.template_kpi_id = NoTemplateKpi
                          ELSE row.template_kpi_id[1] = pending[i].vals.template_kpi_id
                       /\ KraRows(kras') = KraRows(kras)
                       /\ \A j \in 1..Len(kras) :
                             kras'[j].kpis =
                                 IF kras[j].id = pending[i].kra
                                 THEN Append(kras[j].kpis, row)
                                 ELSE kras[j].kpis
      ]_vars

\* The inherited row (weightage 5, from template KPI 7) stands beside its clone.
C12_Witness ==
    /\ ~readonly /\ hasActiveKRA
    /\ \E k, c \in Range(activeKPIs) :
          /\ ~k.is_clone /\ k.weightage = 5 /\ k.template_kpi_id # NoTemplateKpi
          /\ c.is_clone /\ c.weightage = 0 /\ c.template_kpi_id = k.template_kpi_id
          /\ c.name = k.name /\ c.id # k.id

-----------------------------------------------------------------------------
(* The score aggregator, on records with arbitrary scores and weightages *)

MaxScoreRows == 2
ScoreValues == {0, 3, 5}

ScoreRow(id, v) == Kpi(id, FALSE, <<"k">>, v[1], v[2], v[3], FALSE, NoTemplateKpi)

ScoreRowValues == ScoreValues \X ScoreValues \X BOOLEAN

\* KPI collections of n rows (identities 2 .. n + 1) with every choice of values.
ScoreKpis(n) ==
    { [i \in 1..n |-> ScoreRow(i + 1, f[i])] : f \in [1..n -> ScoreRowValues] }

ScoreRecordSet ==
    {RecordEmpty} \cup
    UNION { { <<Kra(1, <<"a">>, 10, kpis)>> : kpis \in ScoreKpis(n) } : n \in 0..MaxScoreRows }

ScoreInit ==
    /\ \E v \in ViewSet : resModel = v[1] /\ options = v[2] /\ fieldOptions = v[3]
    /\ kras \in ScoreRecordSet
    /\ readonly = FALSE
    /\ activeTabIndex = 0
    /\ isDeleting = FALSE
    /\ showRestorePanel = FALSE
    /\ dialogs = <<>>
    /\ pending = <<>>
    /\ unhandled = FALSE
    /\ OrmAbsent

\* The rows are (de)selected and the total is read again at each render.
ScoreNext ==
    \/ OnToggleRestorePanel
    \/ \E k \in Range(activeKPIs), c \in BOOLEAN : OnKPICheckboxChange(k, c)
    \/ \E i \in 1..Len(pending) : Resolve(i)

SpecScore == ScoreInit /\ [][ScoreNext]_vars

\* The sum of a field over the rows at the positions I.
RECURSIVE SumAt(_, _, _)
SumAt(kpis, field, I) ==
    IF I = {} THEN 0
    ELSE LET i == CHOOSE j \in I : TRUE
         IN kpis[i][field] + SumAt(kpis, field, I \ {i})

\* C13: totalScore is, in template mode, the sum of score over all KPIs of the
\* active KRA, deselected ones included; in employee or supervisor mode the sum
\* of weightage over the KPIs with is_selected = true only; and 0 when there is
\* no active KRA.
C13_TotalScore ==
    activeTotalScore =
        IF ~hasActiveKRA THEN 0
        ELSE IF mode = "template"
             THEN SumAt(activeKRA.kpis, "score", 1..Len(activeKRA.kpis))
             ELSE SumAt(activeKRA.kpis, "weightage",
                        {i \in 1..Len(activeKRA.kpis) : activeKRA.kpis[i].is_selected})

\* An employee has deselected the row of weightage 3 beside the selected row
\* of weightage 5: the total reads 5.
C13_Witness ==
    /\ isEmployeeMode /\ hasActiveKRA /\ pending = <<>> /\ showRestorePanel
    /\ Len(activeKPIs) = 2
    /\ activeKPIs[1].weightage = 5 /\ activeKPIs[1].is_selected
    /\ activeKPIs[2].weightage = 3 /\ ~activeKPIs[2].is_selected
    /\ activeTotalScore = 5

-----------------------------------------------------------------------------
(* Operations awaited one after the other *)

\* The user and the host dispatch an operation only when none is in flight.
AwaitedNext ==
    \/ pending = <<>> /\ Next
    \/ \E i \in 1..Len(pending) : Resolve(i)
    \/ \E i \in 1..Len(pending) : Reject(i)

SpecAwaited == Init /\ [][AwaitedNext]_vars

\* C14: with no other operation in flight, a confirmed addKRA(name) in template
\* mode asks the Accessor for one KRA with the trimmed name; when the call
\* resolves, the collection is the previous one with exactly one KRA appended
\* at the end, carrying that name and sequence = (maximum of the existing
\* sequences, or 0 when there are none) + 10, and activeTabIndex is the index
\* of the new KRA.
C14_AddKRA ==
    [][ /\ \A d \in 1..Len(dialogs) :
             (/\ DialogError(Trim(dialogs[d].kraName), dialogs[d].existingNames) = ""
              /\ DialogOnConfirm(d)) =>
                 /\ isTemplateMode
                 /\ pending' = <<LastCall>>
                 /\ LastCall.op = "createKRA"
                 /\ LastCall.vals.name = Trim(dialogs[d].kraName)
                 /\ UNCHANGED <<kras, activeTabIndex>>
        /\ \A i \in 1..Len(pending) :
             (pending[i].op = "createKRA" /\ Resolve(i)) =>
                 /\ Len(kras') = Len(kras) + 1
                 /\ SubSeq(kras', 1, Len(kras)) = kras
                 /\ kras'[Len(kras')].name = pending[i].vals.name
                 /\ kras'[Len(kras')].sequence = MaxSequenceOf(kras) + 10
                 /\ kras'[Len(kras')].kpis = <<>>
                 /\ kras'[Len(kras')].id \notin {k.id : k \in Range(kras)}
                 /\ activeTabIndex' = Len(kras') - 1
      ]_vars

\* KRA 'c' was added to the template holding 'a' (sequence 10): the sequences
\* are 10 and 20 and the active tab is the new KRA's.
C14_Witness ==
    /\ isTemplateMode /\ pending = <<>> /\ dialogs = <<>>
    /\ Len(kras) = 2
    /\ kras[1].name = <<"a">> /\ kras[1].sequence = 10
    /\ kras[2].name = <<"c">> /\ kras[2].sequence = 20
    /\ activeTabIndex = 1

-----------------------------------------------------------------------------
(* KRA creations overlapping each other *)

\* C15: every KRA appended for addKRA has a sequence strictly greater than the
\* sequence of every KRA already in the collection at the moment it is
\* appended, also when several createKRA calls are in flight together.
C15_SequenceMonotonic ==
    [][ \A i \in 1..Len(pending) :
           (pending[i].op = "createKRA" /\ ~pending[i].stale /\ Resolve(i)) =>
               \A j \in 1..Len(kras) :
                   kras'[Len(kras')].sequence > kras[j].sequence ]_vars

\* C16: the KRA names of the record are pairwise distinct (the records the host
\* hands over have distinct names; KRAs are created only through addKRA and
\* its dialog).
C16_KraNamesDistinct ==
    \A i, j \in 1..Len(kras) : i # j => kras[i].name # kras[j].name

-----------------------------------------------------------------------------
(* Validation in the dialog *)

\* The confirm action or the Enter key.
SubmitStep(d) == DialogOnConfirm(d) \/ OnKeydown(d, "Enter")

\* C17: a submission (confirm action or Enter key) whose trimmed input is empty
\* or is in the dialog's existingNames makes no Accessor call (createKRA is not
\* invoked), leaves the dialog open with its input, sets a non-empty error and
\* changes nothing of the widget.
C17_DialogRejects ==
    [][ \A d \in 1..Len(dialogs) :
           (/\ \/ Trim(dialogs[d].kraName) = <<>>
               \/ Trim(dialogs[d].kraName) \in dialogs[d].existingNames
            /\ SubmitStep(d)) =>
               /\ pending' = pending
               /\ Len(dialogs') = Len(dialogs)
               /\ dialogs'[d].error # ""
               /\ dialogs'[d].kraName = dialogs[d].kraName
               /\ dialogs'[d].existingNames = dialogs[d].existingNames
               /\ UNCHANGED <<props, state, unhandled>>
      ]_vars

\* The dialog was submitted with ' c ' while the record has a KRA named 'c':
\* it stays open, showing the duplicate-name error.
C17_Witness ==
    \E d \in 1..Len(dialogs) :
        /\ dialogs[d].kraName = <<" ", "c", " ">>
        /\ <<"c">> \in dialogs[d].existingNames
        /\ dialogs[d].error = "A KRA with this name already exists"
        /\ pending = <<>>

-----------------------------------------------------------------------------
(* The mode resolver, on every combination of its inputs *)

RecognisedModes == {"template", "supervisor", "employee"}

\* props.options.mode / activeFields[name].options.mode: absent or recognised.
ModeOptions == {NoMode} \cup RecognisedModes

ModeInit ==
    /\ resModel \in {TemplateModel, AppraisalModel}
    /\ options \in ModeOptions
    /\ fieldOptions \in ModeOptions
    /\ kras \in RecordSet(resModel)
    /\ readonly \in BOOLEAN
    /\ activeTabIndex = 0
    /\ isDeleting = FALSE
    /\ showRestorePanel = FALSE
    /\ dialogs = <<>>
    /\ pending = <<>>
    /\ unhandled = FALSE
    /\ OrmAbsent

\* The mode is read by the template at each render and by the gated handlers.
ModeNext ==
    \/ OnToggleRestorePanel
    \/ OnAddKRA
    \/ \E d \in 1..Len(dialogs) : DialogClose(d)

SpecMode == ModeInit /\ [][ModeNext]_vars

\* C18: the mode is one of template, supervisor, employee, resolved first
\* match wins: template when the record's model is the template model,
\* whatever the options; otherwise the options' mode if supplied; otherwise
\* the mode of the field's declared options if supplied; otherwise employee.
C18_ModeResolution ==
    /\ mode \in RecognisedModes
    /\ resModel = TemplateModel => mode = "template"
    /\ (resModel # TemplateModel /\ options # NoMode) => mode = options
    /\ (resModel # TemplateModel /\ options = NoMode /\ fieldOptions # NoMode) =>
           mode = fieldOptions
    /\ (resModel # TemplateModel /\ options = NoMode /\ fieldOptions = NoMode) =>
           mode = "employee"
    /\ Cardinality({m \in {isTemplateMode, isSupervisorMode, isEmployeeMode} : m}) = 1

\* On a template record whose view asks for employee mode onAddKRA has opened
\* the dialog: the model won over the options.
C18_Witness ==
    /\ resModel = TemplateModel /\ options = "employee" /\ fieldOptions = "supervisor"
    /\ mode = "template"
    /\ dialogs # <<>>

-----------------------------------------------------------------------------
(* Teardown and ordering *)

\* C19: once the owning record has been replaced, an operation that was in
\* flight at that moment discards its result: when its call settles, the
\* handler writes no widget state.
C19_TornDownWritesNothing ==
    [][ \A i \in 1..Len(pending) :
           (pending[i].stale /\ (Resolve(i) \/ Reject(i))) =>
               UNCHANGED <<activeTabIndex, isDeleting, showRestorePanel>> ]_vars

\* A handler that reads kraRecords or activeKRA gets past its checks.
ReadsCollections ==
    \/ OnAddKRA
    \/ \E d \in 1..Len(dialogs) : DialogOnConfirm(d)
    \/ OnDeleteKRA
    \/ OnAddKPI
    \/ DuplicateKPIStep
    \/ DeleteKPIStep

\* C20: while a structural mutation (add/delete KRA or KPI) is awaiting the
\* Accessor, no operation dispatched after it reads the KRA/KPI collections:
\* the mutation and its tab reconciliation complete first.
C20_StructuralCompletesFirst ==
    [][ ~NoStructuralInFlight => ~ReadsCollections ]_vars

-----------------------------------------------------------------------------
(* The backend-driven widget: KraTabs of kra_tabs.js over the orm service *)

MaxOrmKras == 2   \* appraisal.kra rows of the template
MaxOrmKpis == 2   \* appraisal.kpi rows of one KRA
MaxRpcs == 2      \* orm calls in flight

\* The variables of the record-driven widget, which is not mounted here.
tabsVars == <<kras, resModel, options, fieldOptions, activeTabIndex,
              isDeleting, showRestorePanel, dialogs, pending>>

TabsAbsent ==
    /\ kras = <<>>
    /\ resModel = TemplateModel
    /\ options = NoMode
    /\ fieldOptions = NoMode
    /\ activeTabIndex = 0
    /\ isDeleting = FALSE
    /\ showRestorePanel = FALSE
    /\ dialogs = <<>>
    /\ pending = <<>>

\* A KPI row is its id; the id names the KRA the row is stored under (kra_id).
KpiId(kraId, n) == 10 * kraId + n
KpiKra(kpiId) == kpiId \div 10

RECURSIVE SortedSeq(_)
SortedSeq(S) ==
    IF S = {} THEN <<>>
    ELSE LET m == CHOOSE x \in S : \A y \in S : x <= y
         IN  <<m>> \o SortedSeq(S \ {m})

\* orm.searchRead("appraisal.kra", [["template_id", "=", templateId]], ..., {order: "sequence, id"})
SearchReadKras(templateId) ==
    IF templateId = 0 THEN <<>> ELSE SortedSeq(db.kras)

\* orm.searchRead("appraisal.kpi", [["kra_id", "=", kraId]], ..., {order: "id"})
SearchReadKpis(kraId) ==
    SortedSeq({k \in db.kpis : KpiKra(k) = kraId})

\* An orm call in flight: the method awaiting it and whether addKpi's try
\* block encloses the await.
Rpc(call, arg, cont, caught) ==
    [call |-> call, arg |-> arg, cont |-> cont, caught |-> caught]

CanSend == Len(rpcs) < MaxRpcs

\* The records the form view can hand to the widget: an unsaved template, or
\* the saved template with some of its KRAs.
OrmRecordSet ==
    {[id |-> 0, kras |-> {}]} \cup {[id |-> 1, kras |-> 1..n] : n \in 0..MaxOrmKras}

\* The server rows behind a record; every KRA is created with a first KPI.
RecordDb(record, old) ==
    IF record.id = 0 THEN old
    ELSE [kras |-> record.kras,
          kpis |-> {k \in old.kpis : KpiKra(k) \in record.kras}
                   \cup {KpiId(k, 1) : k \in record.kras \ old.kras}]

\* loadKras up to its first await; rest is what else is in flight.
LoadKras(rest, caught) ==
    IF recordId = 0
    THEN /\ stateKras' = <<>>
         /\ activeKraId' = NoKra
         /\ activeKraKpis' = <<>>
         /\ rpcs' = rest
    ELSE /\ rpcs' = Append(rest, Rpc("searchRead_kra", recordId, "loadKras", caught))
         /\ UNCHANGED <<stateKras, activeKraId, activeKraKpis>>

SafeLoadKras(rest, caught) ==
    IF isDestroyed
    THEN rpcs' = rest /\ UNCHANGED <<stateKras, activeKraId, activeKraKpis>>
    ELSE LoadKras(rest, caught)

\* setup and onWillStart: the first load is under way.
OrmInit ==
    /\ TabsAbsent
    /\ readonly \in BOOLEAN
    /\ unhandled = FALSE
    /\ \E record \in OrmRecordSet :
          /\ recordId = record.id
          /\ db = RecordDb(record, [kras |-> {}, kpis |-> {}])
    /\ stateKras = <<>>
    /\ activeKraId = NoKra
    /\ activeKraKpis = <<>>
    /\ isDestroyed = FALSE
    /\ rpcs = IF recordId = 0 THEN <<>>
              ELSE <<Rpc("searchRead_kra", recordId, "loadKras", FALSE)>>

\* onWillUpdateProps with a replaced or resized record; this.props is still
\* the previous record while the hook runs.
OrmOnWillUpdateProps(nextRecord) ==
    /\ isDestroyed \/ recordId = 0 \/ CanSend
    /\ recordId' = nextRecord.id
    /\ db' = RecordDb(nextRecord, db)
    /\ IF isDestroyed
       THEN UNCHANGED <<stateKras, activeKraId, activeKraKpis, rpcs>>
       ELSE LoadKras(rpcs, FALSE)
    /\ UNCHANGED <<isDestroyed, readonly, unhandled, tabsVars>>

OnWillUnmount ==
    /\ ~isDestroyed
    /\ isDestroyed' = TRUE
    /\ UNCHANGED <<db, recordId, stateKras, activeKraId, activeKraKpis, rpcs,
                   readonly, unhandled, tabsVars>>

\* A click on the tab of a loaded KRA.
SetActiveKra(kraId) ==
    IF isDestroyed THEN UNCHANGED vars
    ELSE /\ CanSend
         /\ activeKraId' = kraId
         /\ rpcs' = Append(rpcs, Rpc("searchRead_kpi", kraId, "setActiveKra", FALSE))
         /\ UNCHANGED <<db, recordId, stateKras, activeKraKpis, isDestroyed,
                        readonly, unhandled, tabsVars>>

AddKpi_returns == readonly \/ activeKraId = NoKra \/ isDestroyed

\* The model stops creating rows at MaxOrmKpis per KRA.
CanCreateKpi ==
    Cardinality({k \in db.kpis : KpiKra(k) = activeKraId})
      + Cardinality({i \in 1..Len(rpcs) :
                        rpcs[i].call = "create" /\ rpcs[i].arg = activeKraId})
      < MaxOrmKpis

AddKpi ==
    IF AddKpi_returns THEN UNCHANGED vars
    ELSE /\ CanSend /\ CanCreateKpi
         /\ rpcs' = Append(rpcs, Rpc("create", activeKraId, "addKpi", TRUE))
         /\ UNCHANGED <<db, recordId, stateKras, activeKraId, activeKraKpis,
                        isDestroyed, readonly, unhandled, tabsVars>>

DeleteKpi_returns == readonly \/ isDestroyed

DeleteKpi(kpiId) ==
    IF DeleteKpi_returns THEN UNCHANGED vars
    ELSE /\ CanSend
         /\ rpcs' = Append(rpcs, Rpc("unlink", kpiId, "deleteKpi", FALSE))
         /\ UNCHANGED <<db, recordId, stateKras, activeKraId, activeKraKpis,
                        isDestroyed, readonly, unhandled, tabsVars>>

\* An edit of a shown row: the row object is changed in place (a row is its
\* id here) and the value is written to the server.
OnKpiChange(kpiId) ==
    /\ CanSend
    /\ rpcs' = Append(rpcs, Rpc("write_kpi", kpiId, "onKpiChange", FALSE))
    /\ UNCHANGED <<db, recordId, stateKras, activeKraId, activeKraKpis,
                   isDestroyed, readonly, unhandled, tabsVars>>

\* loadKras after its searchRead has answered with kraList.
LoadKrasLoaded(kraList, rest, caught) ==
    IF isDestroyed
    THEN rpcs' = rest /\ UNCHANGED <<stateKras, activeKraId, activeKraKpis>>
    ELSE LET activeStillExists == activeKraId \in Range(kraList) IN
         /\ stateKras' = kraList
         /\ IF ~activeStillExists /\ kraList # <<>>
            THEN \* setActiveKra(kras[0].id) up to the await in loadKpisForKra
                 /\ activeKraId' = kraList[1]
                 /\ rpcs' = Append(rest, Rpc("searchRead_kpi", kraList[1], "setActiveKra", caught))
                 /\ UNCHANGED activeKraKpis
            ELSE IF ~activeStillExists
            THEN /\ activeKraId' = NoKra
                 /\ activeKraKpis' = <<>>
                 /\ rpcs' = rest
            ELSE IF activeKraId # NoKra
            THEN /\ rpcs' = Append(rest, Rpc("searchRead_kpi", activeKraId, "loadKras", caught))
                 /\ UNCHANGED <<activeKraId, activeKraKpis>>
            ELSE rpcs' = rest /\ UNCHANGED <<activeKraId, activeKraKpis>>

\* loadKpisForKra after its searchRead has answered with kpis, and then the
\* rest of the method that awaited it: setActiveKra writes active_kra_id.
LoadKpisLoaded(r, kpis, rest) ==
    /\ activeKraKpis' = IF isDestroyed THEN activeKraKpis ELSE kpis
    /\ rpcs' = IF r.cont = "setActiveKra" /\ recordId # 0
               THEN Append(rest, Rpc("write", r.arg, "setActiveKra", r.caught))
               ELSE rest
    /\ UNCHANGED <<stateKras, activeKraId>>

\* The first free KPI id under a KRA; 0 when the model has none left.
FreshKpi(kraId) ==
    LET free == {n \in 1..MaxOrmKpis : KpiId(kraId, n) \notin db.kpis}
    IN  IF free = {} THEN 0
        ELSE KpiId(kraId, CHOOSE n \in free : \A m \in free : n <= m)

\* The server answers call i; answers arrive in any order. The written
\* active_kra_id and field values are never read back by the widget.
OrmRespond(i) ==
    LET r == rpcs[i]
        rest == RemoveAt(rpcs, i)
    IN  /\ CASE r.call = "searchRead_kra" ->
                 /\ LoadKrasLoaded(SearchReadKras(r.arg), rest, r.caught)
                 /\ db' = db
             [] r.call = "searchRead_kpi" ->
                 /\ LoadKpisLoaded(r, SearchReadKpis(r.arg), rest)
                 /\ db' = db
             [] r.call = "create" ->
                 /\ r.arg \in db.kras
                 /\ FreshKpi(r.arg) # 0
                 /\ db' = [db EXCEPT !.kpis = @ \cup {FreshKpi(r.arg)}]
                 /\ SafeLoadKras(rest, TRUE)
             [] r.call = "unlink" ->
                 /\ db' = [db EXCEPT !.kpis = @ \ {r.arg}]
                 /\ SafeLoadKras(rest, FALSE)
             [] OTHER ->
                 /\ rpcs' = rest
                 /\ UNCHANGED <<db, stateKras, activeKraId, activeKraKpis>>
        \* onKpiChange rethrows once its reload is done
        /\ unhandled' = IF r.call = "searchRead_kpi" /\ r.cont = "onKpiChange"
                        THEN TRUE ELSE unhandled
        /\ UNCHANGED <<recordId, isDestroyed, readonly, tabsVars>>

\* The server rejects call i. onKpiChange catches a failed write, reloads the
\* shown KPIs and rethrows; addKpi logs whatever fails inside its try block.
OrmReject(i) ==
    LET r == rpcs[i]
        rest == RemoveAt(rpcs, i)
    IN  /\ IF r.call = "write_kpi"
           THEN IF activeKraId = NoKra \/ isDestroyed
                THEN /\ activeKraKpis' = <<>>
                     /\ rpcs' = rest
                     /\ unhandled' = TRUE
                ELSE /\ rpcs' = Append(rest, Rpc("searchRead_kpi", activeKraId, "onKpiChange", FALSE))
                     /\ UNCHANGED <<activeKraKpis, unhandled>>
           ELSE /\ rpcs' = rest
                /\ unhandled' = IF r.caught THEN unhandled ELSE TRUE
                /\ UNCHANGED activeKraKpis
        /\ UNCHANGED <<db, recordId, stateKras, activeKraId, isDestroyed,
                       readonly, tabsVars>>

OrmNext ==
    \/ \E nextRecord \in OrmRecordSet : OrmOnWillUpdateProps(nextRecord)
    \/ OnWillUnmount
    \/ \E kraId \in Range(stateKras) : SetActiveKra(kraId)
    \/ AddKpi
    \/ \E kpiId \in Range(activeKraKpis) : DeleteKpi(kpiId)
    \/ \E kpiId \in Range(activeKraKpis) : OnKpiChange(kpiId)
    \/ \E i \in 1..Len(rpcs) : OrmRespond(i)
    \/ \E i \in 1..Len(rpcs) : OrmReject(i)

SpecOrm == OrmInit /\ [][OrmNext]_vars

OrmTypeOK ==
    /\ db.kras \subseteq 1..MaxOrmKras
    /\ \A k \in db.kpis : KpiKra(k) \in db.kras
    /\ Len(rpcs) <= MaxRpcs
    /\ activeKraId \in {NoKra} \cup 1..MaxOrmKras

\* A load (searchRead of the KRAs or of a KRA's KPIs) or a selection
\* (setActiveKra up to the answer to its write) is waiting on the server.
LoadOrSelectionInFlight ==
    \E i \in 1..Len(rpcs) :
        rpcs[i].call \in {"searchRead_kra", "searchRead_kpi", "write"}

\* On a live widget activeKraId is null exactly when state.kras is empty and
\* otherwise names a KRA of state.kras: loadKras assigns both without an await
\* in between, and a tab exists only for a KRA of state.kras.
ActiveKraIdInLoadedList ==
    ~isDestroyed
        => /\ (activeKraId = NoKra) <=> (stateKras = <<>>)
           /\ activeKraId # NoKra => activeKraId \in Range(stateKras)

\* C21: in the widget of kra_tabs.js, whenever no load or selection is in
\* flight on a live widget (and no backend call has failed), activeKraId is
\* null exactly when the loaded KRA list is empty and otherwise is the id of a
\* KRA in that list, and activeKraKpis holds KPIs fetched for activeKraId and
\* not for another KRA, whatever the interleaving of setActiveKra, loadKras,
\* addKpi and deleteKpi and the order of the backend's answers.
C21_ActiveKraConsistent ==
    (~isDestroyed /\ ~unhandled /\ ~LoadOrSelectionInFlight)
        => /\ (activeKraId = NoKra) <=> (stateKras = <<>>)
           /\ activeKraId # NoKra => activeKraId \in Range(stateKras)
           /\ \A k \in Range(activeKraKpis) : KpiKra(k) = activeKraId

====
